---------------------------- MODULE Spec2Model ----------------------------
(***************************************************************************)
(* Model of the perplexity-ask MCP server (src/perplexity-ask/src/index.ts) *)
(*                                                                         *)
(* JavaScript strings are modelled as sequences of tokens, so that         *)
(* template literals and += become sequence concatenation and "contains"   *)
(* and "followed by" are checkable.  JavaScript values that the code tests *)
(* with !, Array.isArray or .length are modelled as tagged records.        *)
(***************************************************************************)
EXTENDS Integers, Sequences, FiniteSets, TLC

VARIABLES
    env,        \* process.env.PERPLEXITY_API_KEY as found at startup
    apiKey,     \* the module constant PERPLEXITY_API_KEY
    phase,      \* position of the process in its top-level script
    exitCode,   \* the status the process exits with once it terminates
    diag,       \* what console.error has written
    calls,      \* the call-tool handler invocations that are awaiting
    lastDone,   \* the call-tool request answered last, with its answer
    lastList    \* the answer to the list-tools request answered last

vars == <<env, apiKey, phase, exitCode, diag, calls, lastDone, lastList>>

\* Number of call-tool invocations that may be pending at the same time.
MaxPending == 2

Slots == 1..MaxPending

---------------------------------------------------------------------------
(* JavaScript values                                                       *)

JsUndefined == [t |-> "undefined", n |-> 0, s |-> <<>>, items |-> <<>>]
JsNull      == [t |-> "null", n |-> 0, s |-> <<>>, items |-> <<>>]
JsObject    == [t |-> "object", n |-> 0, s |-> <<>>, items |-> <<>>]
JsNum(k)    == [t |-> "number", n |-> k, s |-> <<>>, items |-> <<>>]
JsStr(toks) == [t |-> "string", n |-> 0, s |-> toks, items |-> <<>>]
JsArr(its)  == [t |-> "array", n |-> 0, s |-> <<>>, items |-> its]

\* !v is FALSE exactly for the truthy values
Truthy(v) ==
    CASE v.t = "undefined" -> FALSE
      [] v.t = "null"      -> FALSE
      [] v.t = "number"    -> v.n # 0
      [] v.t = "string"    -> Len(v.s) > 0
      [] OTHER             -> TRUE

IsArray(v) == v.t = "array"

\* String(v), as applied by += and by template literals
ToStr(v) ==
    CASE v.t = "undefined" -> <<"undefined">>
      [] v.t = "null"      -> <<"null">>
      [] v.t = "number"    -> <<ToString(v.n)>>
      [] v.t = "string"    -> v.s
      [] v.t = "object"    -> <<"[object Object]">>
      [] OTHER             -> <<"<array>">>

\* an Error object: String(e) is "<name>: <message>", e.message is <message>
JsError(nm, msg) == [name |-> nm, message |-> msg]
ErrorToString(e) == <<e.name, ": ">> \o e.message
NoError == JsError("", <<>>)

---------------------------------------------------------------------------
(* Inputs                                                                  *)

Msg1 == [role |-> "user", content |-> "ping"]
Msg2 == [role |-> "assistant", content |-> "more"]

MessagesValues ==
    { JsUndefined, JsNull, JsNum(0), JsNum(7), JsStr(<<>>), JsStr(<<"hi">>),
      JsObject, JsArr(<<>>), JsArr(<<Msg1, Msg2>>) }

ArgsAbsent == [present |-> FALSE, messages |-> JsUndefined]
ArgsObj(m) == [present |-> TRUE, messages |-> m]

ArgsValues == {ArgsAbsent} \cup {ArgsObj(m) : m \in MessagesValues}

ToolNames == {"perplexity_ask", "not_perplexity_ask"}

EnvValues == {JsUndefined, JsStr(<<>>), JsStr(<<"pplx-key">>)}

\* what fetch() may reject with
FetchErrors == {JsError("TypeError", <<"fetch failed">>)}

\* status line of the upstream answer
Statuses == {200, 299, 300, 500}
StatusText(st) ==
    CASE st = 200 -> "OK"
      [] st = 300 -> "Multiple Choices"
      [] st = 500 -> "Internal Server Error"
      [] OTHER    -> ""

\* what response.text() may resolve to; the second is a well-formed completion
BodyTexts ==
    { <<"upstream is down">>,
      <<"{\"choices\":[{\"message\":{\"content\":\"pong\"}}]}">> }
TextErrors == {JsError("TypeError", <<"terminated">>)}
JsonErrors == {JsError("SyntaxError", <<"Unexpected token < in JSON">>)}

\* parsed JSON bodies
NoMessage      == [present |-> FALSE, content |-> JsUndefined]
MessageOf(c)   == [present |-> TRUE, content |-> c]
Choice(m)      == [message |-> m]
Data(ch, cit)  == [t |-> "object", choices |-> ch, citations |-> cit]
DataNull       == [t |-> "null", choices |-> JsUndefined, citations |-> JsUndefined]
Pong           == JsStr(<<"pong">>)
CitA           == "https://a"
CitB           == "https://b"
GoodChoices(c) == JsArr(<<Choice(MessageOf(c))>>)

ShapelessData ==
    { DataNull,
      Data(JsUndefined, JsUndefined),
      Data(JsArr(<<>>), JsArr(<<CitA>>)),
      Data(JsArr(<<Choice(NoMessage)>>), JsUndefined) }

ContentlessData ==
    { Data(GoodChoices(JsUndefined), JsUndefined),
      Data(GoodChoices(JsUndefined), JsArr(<<CitA>>)) }

CompletionData ==
    { Data(GoodChoices(Pong), JsUndefined),
      Data(GoodChoices(Pong), JsStr(<<"x">>)),
      Data(GoodChoices(Pong), JsArr(<<>>)),
      Data(GoodChoices(Pong), JsArr(<<CitA>>)),
      Data(GoodChoices(Pong), JsArr(<<CitA, CitB>>)),
      Data(GoodChoices(JsStr(<<>>)), JsArr(<<CitB, CitA>>)) }

DataValues == ShapelessData \cup ContentlessData \cup CompletionData
NoData == DataNull

---------------------------------------------------------------------------
(* The program                                                             *)

apiUrl == "https://api.perplexity.ai/chat/completions"
model  == "sonar-pro"

McpError(code, msg) == [code |-> code, message |-> msg]

\* what the call-tool handler answers: a result, or a thrown McpError
\* (content and isError carry nothing when kind = "error")
Returned(txt) ==
    [kind |-> "result", code |-> "", message |-> <<>>,
     content |-> <<[type |-> "text", text |-> txt]>>, isError |-> FALSE]
Thrown(err) ==
    [kind |-> "error", code |-> err.code, message |-> err.message,
     content |-> <<>>, isError |-> FALSE]

\* the answer of the list-tools handler
ListToolsResult ==
    [tools |-> <<
        [name |-> "perplexity_ask",
         inputSchema |->
            [type |-> "object",
             properties |->
                [messages |->
                    [type |-> "array",
                     items |->
                        [type |-> "object",
                         properties |->
                            [role |-> [type |-> "string"],
                             content |-> [type |-> "string"]],
                         required |-> <<"role", "content">>]]],
             required |-> <<"messages">>]] >>]

\* variant: the name is not compared at all
UnknownToolUnchecked(name) == FALSE

\* request.params.name !== 'perplexity_ask'
UnknownTool(name) == name # "perplexity_ask"

\* args.messages: a property read, undefined when the object lacks it
MessagesOf(args) == args.messages

\* variant: the Array.isArray test is left out
InvalidArgumentsNoArrayTest(args) ==
    \/ ~args.present
    \/ ~Truthy(MessagesOf(args))

\* !args || !args.messages || !Array.isArray(args.messages)
InvalidArguments(args) ==
    \/ ~args.present
    \/ ~Truthy(MessagesOf(args))
    \/ ~IsArray(MessagesOf(args))

\* JSON.stringify of one message and of the messages array
StringifyMessage(m) ==
    <<"{\"role\":\"", m.role, "\",\"content\":\"", m.content, "\"}">>

RECURSIVE StringifyMessages(_)
StringifyMessages(ms) ==
    IF Len(ms) = 0 THEN <<>>
    ELSE IF Len(ms) = 1 THEN StringifyMessage(Head(ms))
    ELSE StringifyMessage(Head(ms)) \o <<",">> \o StringifyMessages(Tail(ms))

\* JSON.stringify({model, messages})
StringifyBody(mdl, ms) ==
    <<"{\"model\":\"", mdl, "\",\"messages\":[">> \o StringifyMessages(ms)
        \o <<"]}">>

\* variant: the messages are sent newest first
RECURSIVE Reversed(_)
Reversed(ms) ==
    IF Len(ms) = 0 THEN <<>> ELSE Reversed(Tail(ms)) \o <<Head(ms)>>

BuildRequestNewestFirst(ms, key) ==
    [url |-> apiUrl,
     method |-> "POST",
     contentType |-> "application/json",
     authorization |-> <<"Bearer ">> \o ToStr(key),
     body |-> StringifyBody(model, Reversed(ms))]

\* the fetch() call of performChatCompletion
BuildRequest(ms, key) ==
    [url |-> apiUrl,
     method |-> "POST",
     contentType |-> "application/json",
     authorization |-> <<"Bearer ">> \o ToStr(key),
     body |-> StringifyBody(model, ms)]

\* variant: 300 counts as a success
ResponseOkUpTo300(st) == st >= 200 /\ st <= 300

\* response.ok
ResponseOk(st) == st >= 200 /\ st <= 299

NetworkError(e) ==
    JsError("Error",
            <<"Network error while calling Perplexity API: ">> \o ErrorToString(e))

UnparsedErrorText == <<"Unable to parse error response">>

ApiError(st, stText, errorText) ==
    JsError("Error",
            <<"Perplexity API error: ", ToString(st), " ", stText, "\n">>
                \o errorText)

JsonParseError(e) ==
    JsError("Error",
            <<"Failed to parse JSON response from Perplexity API: ">>
                \o ErrorToString(e))

CannotRead(of, prop) ==
    JsError("TypeError",
            <<"Cannot read properties of ", of, " (reading '", prop, "')">>)

\* data.choices[0].message.content: the value read, or the TypeError thrown
Threw(e) == [threw |-> TRUE, err |-> e, value |-> JsUndefined]
Value(v) == [threw |-> FALSE, err |-> NoError, value |-> v]

\* variant: optional chaining, data?.choices?.[0]?.message?.content
ReadContentOptional(data) ==
    IF data.t = "null" THEN Value(JsUndefined)
    ELSE IF data.choices.t # "array" THEN Value(JsUndefined)
    ELSE IF Len(data.choices.items) = 0 THEN Value(JsUndefined)
    ELSE IF ~data.choices.items[1].message.present THEN Value(JsUndefined)
    ELSE Value(data.choices.items[1].message.content)

ReadContent(data) ==
    IF data.t = "null" THEN Threw(CannotRead("null", "choices"))
    ELSE IF data.choices.t \in {"undefined", "null"}
        THEN Threw(CannotRead(data.choices.t, "0"))
    ELSE IF Len(data.choices.items) = 0
        THEN Threw(CannotRead("undefined", "message"))
    ELSE IF ~data.choices.items[1].message.present
        THEN Threw(CannotRead("undefined", "content"))
    ELSE Value(data.choices.items[1].message.content)

\* data.citations && Array.isArray(data.citations) && data.citations.length > 0
HasCitations(cit) == Truthy(cit) /\ IsArray(cit) /\ Len(cit.items) > 0

\* variant: the citations are numbered from 0
CitationLineFromZero(citation, index) ==
    <<"[", ToString(index), "] ", citation, "\n">>

\* `[${index + 1}] ${citation}\n`, index counting from 0
CitationLine(citation, index) ==
    <<"[", ToString(index + 1), "] ", citation, "\n">>

\* the forEach loop from position index on
RECURSIVE AppendCitations(_, _, _)
AppendCitations(txt, cits, index) ==
    IF index >= Len(cits) THEN txt
    ELSE AppendCitations(txt \o CitationLine(cits[index + 1], index),
                         cits, index + 1)

\* messageContent after the citations block
Compose(content, cit) ==
    IF HasCitations(cit)
    THEN JsStr(AppendCitations(ToStr(content) \o <<"\n", "\n", "Citations:", "\n">>,
                               cit.items, 0))
    ELSE content

\* variant: the underlying message is dropped
InternalErrorNoDetail(e) ==
    McpError("InternalError", <<"Error processing request: ">>)

\* the catch clause of the call-tool handler
InternalError(e) ==
    McpError("InternalError", <<"Error processing request: ">> \o e.message)

---------------------------------------------------------------------------
(* State                                                                   *)

\* what one invocation has seen of the upstream answer
NoResp ==
    [settled |-> "pending", status |-> 0, statusText |-> "", read |-> "none",
     bodyText |-> <<>>, data |-> NoData, err |-> NoError]

Rejected(e) == [NoResp EXCEPT !.settled = "rejected", !.err = e]
Resolved(st) ==
    [NoResp EXCEPT !.settled = "resolved", !.status = st,
                   !.statusText = StatusText(st)]

\* the frame of one invocation of the call-tool handler
Idle == [pc |-> "idle", name |-> "", args |-> ArgsAbsent, reqs |-> <<>>,
         resp |-> NoResp]
Frame(pc, name, args, reqs, resp) ==
    [pc |-> pc, name |-> name, args |-> args, reqs |-> reqs, resp |-> resp]

\* variant: the frame is kept in a field shared by all invocations
SuspendShared(cs, i, frame) == [j \in Slots |-> frame]

\* an invocation keeps its frame across an await, and drops it when it ends
Suspend(cs, i, frame) == [cs EXCEPT ![i] = frame]
Finish(cs, i) == [cs EXCEPT ![i] = Idle]

NoCall ==
    [served |-> FALSE, name |-> "", args |-> ArgsAbsent, reqs |-> <<>>,
     resp |-> NoResp, answer |-> Thrown(McpError("", <<>>))]
Answered(name, args, reqs, resp, answer) ==
    [served |-> TRUE, name |-> name, args |-> args, reqs |-> reqs,
     resp |-> resp, answer |-> answer]

NoList == [served |-> FALSE, tools |-> <<>>]

\* the exit status of a process ended by an uncaught exception
UncaughtExit == 1

\* variant: only an unset variable counts as missing
CredentialMissingUnsetOnly(key) == key.t = "undefined"

\* if (!PERPLEXITY_API_KEY)
CredentialMissing(key) == ~Truthy(key)

\* variant: the catch handler exits the process with a failure status
StatusAfterRunRejectedFatal(code) == UncaughtExit

\* server.run().catch(console.error): the exit status after the catch
StatusAfterRunRejected(code) == code

Init ==
    /\ env \in EnvValues
    /\ apiKey = JsUndefined
    /\ phase = "start"
    /\ exitCode = 0
    /\ diag = {}
    /\ calls = [i \in Slots |-> Idle]
    /\ lastDone = NoCall
    /\ lastList = NoList

---------------------------------------------------------------------------
(* Actions                                                                 *)

\* lines 22-25 and 208-209: the credential check, then the server is
\* constructed and run() is called, which awaits server.connect
Startup ==
    /\ phase = "start"
    /\ apiKey' = env
    /\ IF CredentialMissing(env)
       THEN phase' = "crashed" /\ exitCode' = UncaughtExit
       ELSE phase' = "connecting" /\ UNCHANGED exitCode
    /\ UNCHANGED <<env, diag, calls, lastDone, lastList>>

\* server.connect resolves: run() logs and the server serves
ConnectResolved ==
    /\ phase = "connecting"
    /\ phase' = "running"
    /\ diag' = diag \cup {"running"}
    /\ UNCHANGED <<env, apiKey, exitCode, calls, lastDone, lastList>>

\* server.connect rejects: the run promise rejects, console.error logs it
ConnectRejected ==
    /\ phase = "connecting"
    /\ phase' = "failed"
    /\ diag' = diag \cup {"runError"}
    /\ exitCode' = StatusAfterRunRejected(exitCode)
    /\ UNCHANGED <<env, apiKey, calls, lastDone, lastList>>

\* the transport channel closes: no further request arrives
TransportClosed ==
    /\ phase = "running"
    /\ phase' = "closed"
    /\ UNCHANGED <<env, apiKey, exitCode, diag, calls, lastDone, lastList>>

\* nothing is left to run: the process ends with its exit status
ProcessExit ==
    /\ phase \in {"failed", "closed"}
    /\ \A i \in Slots : calls[i].pc = "idle"
    /\ phase' = "exited"
    /\ UNCHANGED <<env, apiKey, exitCode, diag, calls, lastDone, lastList>>

\* the list-tools handler
ListTools ==
    /\ phase = "running"
    /\ lastList' = [served |-> TRUE, tools |-> ListToolsResult.tools]
    /\ UNCHANGED <<env, apiKey, phase, exitCode, diag, calls, lastDone>>

\* the call-tool handler up to its first await, the fetch() call
CallTool(i, name, args) ==
    /\ phase = "running"
    /\ calls[i].pc = "idle"
    /\ IF UnknownTool(name)
       THEN /\ lastDone' = Answered(name, args, <<>>, NoResp,
                    Thrown(McpError("MethodNotFound", <<"Unknown tool: ", name>>)))
            /\ UNCHANGED calls
       ELSE IF InvalidArguments(args)
       THEN /\ lastDone' = Answered(name, args, <<>>, NoResp,
                    Thrown(McpError("InvalidParams",
                        <<"Invalid arguments for perplexity_ask: \"messages\" must be an array">>)))
            /\ UNCHANGED calls
       ELSE /\ calls' = Suspend(calls, i,
                    Frame("fetch", name, args,
                          <<BuildRequest(MessagesOf(args).items, apiKey)>>, NoResp))
            /\ UNCHANGED lastDone
    /\ UNCHANGED <<env, apiKey, phase, exitCode, diag, lastList>>

\* the invocation ends by throwing e out of performChatCompletion
Fails(i, resp, e) ==
    /\ lastDone' = Answered(calls[i].name, calls[i].args, calls[i].reqs, resp,
                            Thrown(InternalError(e)))
    /\ calls' = Finish(calls, i)

\* fetch() rejects
FetchRejected(i, e) ==
    /\ phase \in {"running", "closed"}
    /\ calls[i].pc = "fetch"
    /\ Fails(i, Rejected(e), NetworkError(e))
    /\ UNCHANGED <<env, apiKey, phase, exitCode, diag, lastList>>

\* fetch() resolves: the status decides which body read is awaited
FetchResolved(i, st) ==
    /\ phase \in {"running", "closed"}
    /\ calls[i].pc = "fetch"
    /\ calls' = Suspend(calls, i,
            [calls[i] EXCEPT !.pc = IF ResponseOk(st) THEN "json" ELSE "text",
                             !.resp = Resolved(st)])
    /\ UNCHANGED <<env, apiKey, phase, exitCode, diag, lastDone, lastList>>

\* response.text() resolves with txt
TextResolved(i, txt) ==
    /\ phase \in {"running", "closed"}
    /\ calls[i].pc = "text"
    /\ LET r == calls[i].resp IN
       Fails(i, [r EXCEPT !.read = "text", !.bodyText = txt],
             ApiError(r.status, r.statusText, txt))
    /\ UNCHANGED <<env, apiKey, phase, exitCode, diag, lastList>>

\* response.text() rejects
TextRejected(i, e) ==
    /\ phase \in {"running", "closed"}
    /\ calls[i].pc = "text"
    /\ LET r == calls[i].resp IN
       Fails(i, [r EXCEPT !.read = "textFail", !.err = e],
             ApiError(r.status, r.statusText, UnparsedErrorText))
    /\ UNCHANGED <<env, apiKey, phase, exitCode, diag, lastList>>

\* response.json() rejects
JsonRejected(i, e) ==
    /\ phase \in {"running", "closed"}
    /\ calls[i].pc = "json"
    /\ Fails(i, [calls[i].resp EXCEPT !.read = "jsonFail", !.err = e],
             JsonParseError(e))
    /\ UNCHANGED <<env, apiKey, phase, exitCode, diag, lastList>>

\* response.json() resolves with data: the rest of performChatCompletion
JsonResolved(i, data) ==
    /\ phase \in {"running", "closed"}
    /\ calls[i].pc = "json"
    /\ LET r == [calls[i].resp EXCEPT !.read = "json", !.data = data]
           c == ReadContent(data)
       IN IF c.threw
          THEN Fails(i, r, c.err)
          ELSE /\ lastDone' = Answered(calls[i].name, calls[i].args,
                        calls[i].reqs, r,
                        Returned(Compose(c.value, data.citations)))
               /\ calls' = Finish(calls, i)
    /\ UNCHANGED <<env, apiKey, phase, exitCode, diag, lastList>>

Next ==
    \/ Startup
    \/ ConnectResolved
    \/ ConnectRejected
    \/ TransportClosed
    \/ ProcessExit
    \/ ListTools
    \/ \E i \in Slots, name \in ToolNames, args \in ArgsValues :
            CallTool(i, name, args)
    \/ \E i \in Slots, e \in FetchErrors : FetchRejected(i, e)
    \/ \E i \in Slots, st \in Statuses : FetchResolved(i, st)
    \/ \E i \in Slots, txt \in BodyTexts : TextResolved(i, txt)
    \/ \E i \in Slots, e \in TextErrors : TextRejected(i, e)
    \/ \E i \in Slots, e \in JsonErrors : JsonRejected(i, e)
    \/ \E i \in Slots, data \in DataValues : JsonResolved(i, data)

Spec == Init /\ [][Next]_vars

---------------------------------------------------------------------------
(* Properties                                                              *)

Contains(seq, tok) == \E k \in 1..Len(seq) : seq[k] = tok
EndsWith(seq, suf) ==
    /\ Len(seq) >= Len(suf)
    /\ SubSeq(seq, Len(seq) - Len(suf) + 1, Len(seq)) = suf

Pending == {i \in Slots : calls[i].pc # "idle"}

\* the call named the tool and gave an array as messages
ValidCall(r) ==
    /\ r.name = "perplexity_ask"
    /\ r.args.present
    /\ r.args.messages.t = "array"

IsMcpError(a, code) == a.kind = "error" /\ a.code = code

\* C1: a call-tool request whose name is not 'perplexity_ask' fails with
\* MethodNotFound whatever its arguments are, and no HTTP request is issued
\* for it: it is answered with no request made and never becomes pending.
C1_UnknownToolIsMethodNotFound ==
    /\ (lastDone.served /\ lastDone.name # "perplexity_ask") =>
            /\ IsMcpError(lastDone.answer, "MethodNotFound")
            /\ lastDone.reqs = <<>>
            /\ lastDone.resp = NoResp
    /\ \A i \in Pending : calls[i].name = "perplexity_ask"

C1_Witness ==
    /\ lastDone.served
    /\ lastDone.name = "not_perplexity_ask"
    /\ lastDone.args = ArgsObj(JsArr(<<Msg1, Msg2>>))
    /\ lastDone.answer.kind = "error"

\* C2: a 'perplexity_ask' call whose arguments are absent, lack 'messages' or
\* give a non-array 'messages' fails with InvalidParams and issues no HTTP
\* request; any array, the empty one included, passes the check and is
\* forwarded: one request is issued for it and the answer is not InvalidParams.
C2_MessagesMustBeArray ==
    /\ (lastDone.served /\ lastDone.name = "perplexity_ask") =>
            IF lastDone.args.present /\ lastDone.args.messages.t = "array"
            THEN /\ ~IsMcpError(lastDone.answer, "InvalidParams")
                 /\ Len(lastDone.reqs) = 1
            ELSE /\ IsMcpError(lastDone.answer, "InvalidParams")
                 /\ lastDone.reqs = <<>>
                 /\ lastDone.resp = NoResp
    /\ \A i \in Pending : calls[i].args.present /\ calls[i].args.messages.t = "array"

C2_Witness ==
    /\ lastDone.served
    /\ lastDone.name = "perplexity_ask"
    /\ lastDone.args = ArgsObj(JsStr(<<"hi">>))
    /\ lastDone.answer.code = "InvalidParams"
    /\ \E i \in Pending : calls[i].args = ArgsObj(JsArr(<<>>)) /\ Len(calls[i].reqs) = 1

\* the roles and contents of the messages, in order
RECURSIVE MessageAtoms(_)
MessageAtoms(ms) ==
    IF Len(ms) = 0 THEN <<>>
    ELSE <<Head(ms).role, Head(ms).content>> \o MessageAtoms(Tail(ms))

IsMessageAtom(tok) ==
    tok \in {Msg1.role, Msg1.content, Msg2.role, Msg2.content}

\* one POST to the endpoint, of {model: 'sonar-pro', messages} in the order
\* given, with the credential found at startup as bearer
OneRequestAsSpecified(r) ==
    /\ Len(r.reqs) = 1
    /\ r.reqs[1].method = "POST"
    /\ r.reqs[1].url = "https://api.perplexity.ai/chat/completions"
    /\ r.reqs[1].authorization = <<"Bearer ">> \o env.s
    /\ r.reqs[1].body[1] = "{\"model\":\""
    /\ r.reqs[1].body[2] = "sonar-pro"
    /\ SelectSeq(r.reqs[1].body, IsMessageAtom) = MessageAtoms(r.args.messages.items)

\* C3: every valid call issues exactly one POST, of {model: 'sonar-pro',
\* messages} in the order given with the startup credential as bearer, and on
\* every outcome (while it is pending and once it is answered) it has issued
\* no second one.
C3_ExactlyOneRequest ==
    /\ \A i \in Pending : OneRequestAsSpecified(calls[i])
    /\ (lastDone.served /\ ValidCall(lastDone)) => OneRequestAsSpecified(lastDone)

C3_Witness ==
    /\ lastDone.served
    /\ lastDone.args = ArgsObj(JsArr(<<Msg1, Msg2>>))
    /\ lastDone.resp.settled = "rejected"
    /\ Len(lastDone.reqs) = 1
    /\ \E i \in Pending : calls[i].pc = "text"

\* the response made performChatCompletion throw
RaisedInside(resp) ==
    \/ resp.settled = "rejected"
    \/ resp.settled = "resolved" /\ (resp.status < 200 \/ resp.status > 299)
    \/ resp.read = "jsonFail"
    \/ resp.read = "json" /\ ReadContent(resp.data).threw

\* the error performChatCompletion throws on that response
RaisedError(resp) ==
    IF resp.settled = "rejected" THEN NetworkError(resp.err)
    ELSE IF resp.read = "text"
        THEN ApiError(resp.status, resp.statusText, resp.bodyText)
    ELSE IF resp.read = "textFail"
        THEN ApiError(resp.status, resp.statusText, UnparsedErrorText)
    ELSE IF resp.read = "jsonFail" THEN JsonParseError(resp.err)
    ELSE ReadContent(resp.data).err

\* C4: when the Completion Client raises an exception in a valid call, the
\* call fails with an InternalError whose message is 'Error processing
\* request: ' followed by the underlying error's message; every answered
\* valid call is a result or that InternalError.
C4_ExceptionsBecomeInternalError ==
    (lastDone.served /\ ValidCall(lastDone)) =>
        IF RaisedInside(lastDone.resp)
        THEN /\ IsMcpError(lastDone.answer, "InternalError")
             /\ Head(lastDone.answer.message) = "Error processing request: "
             /\ Tail(lastDone.answer.message) = RaisedError(lastDone.resp).message
             /\ Len(RaisedError(lastDone.resp).message) > 0
        ELSE lastDone.answer.kind = "result"

C4_Witness ==
    /\ lastDone.served
    /\ ValidCall(lastDone)
    /\ lastDone.resp.read = "jsonFail"
    /\ IsMcpError(lastDone.answer, "InternalError")

\* the parsed body has no choices[0].message to read content from
LacksMessage(data) ==
    \/ data.t = "null"
    \/ data.choices.t # "array"
    \/ Len(data.choices.items) = 0
    \/ ~data.choices.items[1].message.present

\* the parsed body has no choices[0].message.content
LacksContent(data) ==
    \/ LacksMessage(data)
    \/ data.choices.items[1].message.content.t = "undefined"

AnsweredJson ==
    /\ lastDone.served
    /\ ValidCall(lastDone)
    /\ lastDone.resp.read = "json"

\* C5 as stated: a success status with a parsed body lacking
\* choices[0].message.content ends in an uncaught fault, that is, in neither
\* a result nor a structured protocol error.
C5_Original_UncaughtFault ==
    (AnsweredJson /\ LacksContent(lastDone.resp.data)) =>
        lastDone.answer.kind \notin {"result", "error"}

\* C5 amended: when the parsed body has no choices[0].message (no or empty
\* 'choices', no 'message', a null body) the TypeError is caught by the
\* call-tool handler and the call fails with a structured InternalError whose
\* message is 'Error processing request: ' followed by the TypeError's
\* message; when only 'content' is missing nothing is thrown and the call
\* returns isError = false with the text undefined, or 'undefined' followed
\* by the citations block.
C5_ShapeFaultIsInternalError ==
    (AnsweredJson /\ LacksContent(lastDone.resp.data)) =>
        IF LacksMessage(lastDone.resp.data)
        THEN /\ IsMcpError(lastDone.answer, "InternalError")
             /\ Head(lastDone.answer.message) = "Error processing request: "
             /\ lastDone.answer.message[2] = "Cannot read properties of "
        ELSE /\ lastDone.answer.kind = "result"
             /\ ~lastDone.answer.isError
             /\ LET txt == lastDone.answer.content[1].text IN
                IF HasCitations(lastDone.resp.data.citations)
                THEN txt.t = "string" /\ Head(txt.s) = "undefined"
                ELSE txt.t = "undefined"

C5_Witness ==
    /\ AnsweredJson
    /\ lastDone.resp.data = Data(JsArr(<<>>), JsArr(<<CitA>>))
    /\ IsMcpError(lastDone.answer, "InternalError")

\* the text is base, the blank line, 'Citations:' and one line '[k] <citation>'
\* per citation in order, k counting from 1, each ended by a newline
IsBaseWithCitations(txt, base, cits) ==
    /\ Len(txt) = Len(base) + 4 + 5 * Len(cits)
    /\ SubSeq(txt, 1, Len(base)) = base
    /\ SubSeq(txt, Len(base) + 1, Len(base) + 4) = <<"\n", "\n", "Citations:", "\n">>
    /\ \A k \in 1..Len(cits) :
            SubSeq(txt, Len(base) + 5 * k, Len(base) + 5 * k + 4)
                = <<"[", ToString(k), "] ", cits[k], "\n">>

\* C6: a success status with a body whose choices[0].message.content is the
\* string base returns isError = false and exactly one text item, whose text
\* is base when 'citations' is absent, no array or empty, and otherwise base
\* followed by the citations block.
C6_ResultText ==
    (AnsweredJson /\ ~LacksContent(lastDone.resp.data)) =>
        LET base == lastDone.resp.data.choices.items[1].message.content
            cit  == lastDone.resp.data.citations
            ans  == lastDone.answer
        IN /\ ans.kind = "result"
           /\ ans.isError = FALSE
           /\ Len(ans.content) = 1
           /\ ans.content[1].type = "text"
           /\ IF cit.t # "array" \/ Len(cit.items) = 0
              THEN ans.content[1].text = base
              ELSE /\ ans.content[1].text.t = "string"
                   /\ IsBaseWithCitations(ans.content[1].text.s, base.s, cit.items)

C6_Witness ==
    /\ AnsweredJson
    /\ lastDone.resp.data = Data(GoodChoices(Pong), JsArr(<<CitA, CitB>>))
    /\ lastDone.answer.kind = "result"
    /\ lastDone.answer.content[1].text.s =
          <<"pong", "\n", "\n", "Citations:", "\n",
            "[", "1", "] ", "https://a", "\n", "[", "2", "] ", "https://b", "\n">>

NonSuccess(st) == st < 200 \/ st > 299

\* C7: a valid call whose upstream status is not 2xx fails, whatever the
\* body; the error text holds the status code, the status text and the body
\* text, or the placeholder when reading the body failed; the body is read as
\* text only and never parsed as a completion.
C7_NonSuccessStatusFails ==
    /\ \A i \in Pending :
            (calls[i].resp.settled = "resolved" /\ NonSuccess(calls[i].resp.status))
                => calls[i].pc = "text"
    /\ (lastDone.served /\ ValidCall(lastDone)
            /\ lastDone.resp.settled = "resolved"
            /\ NonSuccess(lastDone.resp.status)) =>
        /\ lastDone.answer.kind = "error"
        /\ lastDone.resp.read \in {"text", "textFail"}
        /\ Contains(lastDone.answer.message, ToString(lastDone.resp.status))
        /\ Contains(lastDone.answer.message, lastDone.resp.statusText)
        /\ IF lastDone.resp.read = "text"
           THEN EndsWith(lastDone.answer.message, lastDone.resp.bodyText)
           ELSE EndsWith(lastDone.answer.message,
                         <<"Unable to parse error response">>)

C7_Witness ==
    /\ lastDone.served
    /\ lastDone.resp.status = 300
    /\ lastDone.resp.read = "text"
    /\ lastDone.resp.bodyText
          = <<"{\"choices\":[{\"message\":{\"content\":\"pong\"}}]}">>
    /\ lastDone.answer.kind = "error"

\* every request issued so far by a call pending or answered last
Issued ==
    UNION {{calls[i].reqs[k] : k \in 1..Len(calls[i].reqs)} : i \in Slots}
        \cup {lastDone.reqs[k] : k \in 1..Len(lastDone.reqs)}

\* C8: with the credential absent or empty at startup the process ends
\* before the server is constructed or connected: no list-tools or call-tool
\* request is ever served; and no request is ever issued without a credential.
C8_NoCredentialNoService ==
    /\ (env.t = "undefined" \/ env = JsStr(<<>>)) =>
            /\ phase \in {"start", "crashed"}
            /\ phase = "crashed" => exitCode # 0
            /\ ~lastDone.served
            /\ ~lastList.served
            /\ Pending = {}
            /\ diag = {}
    /\ \A rq \in Issued :
            Len(rq.authorization) = 2 /\ rq.authorization[2] # ""

C8_Witness ==
    /\ env = JsStr(<<>>)
    /\ phase = "crashed"
    /\ exitCode = 1

\* C9 as stated: once the run promise has rejected, the process ends with a
\* non-zero exit status.
C9_Original_NonZeroExit ==
    ("runError" \in diag /\ phase = "exited") => exitCode # 0

\* C9 amended: when the run promise rejects, the rejection is caught and
\* written to the diagnostic stream; the server serves nothing, and the exit
\* status is left at 0, so the process does not end with a non-zero status.
C9_RunRejectionIsLogged ==
    /\ phase = "failed" => "runError" \in diag
    /\ "runError" \in diag =>
            /\ phase \in {"failed", "exited"}
            /\ exitCode = 0
            /\ ~lastDone.served
            /\ ~lastList.served
            /\ Pending = {}

C9_Witness ==
    /\ "runError" \in diag
    /\ phase = "exited"
    /\ exitCode = 0

\* the answer the handler gives to (name, args) on the upstream response resp
OwnOutcome(name, args, resp) ==
    IF name # "perplexity_ask"
        THEN Thrown(McpError("MethodNotFound", <<"Unknown tool: ", name>>))
    ELSE IF ~args.present \/ args.messages.t # "array"
        THEN Thrown(McpError("InvalidParams",
            <<"Invalid arguments for perplexity_ask: \"messages\" must be an array">>))
    ELSE IF RaisedInside(resp)
        THEN Thrown(McpError("InternalError",
            <<"Error processing request: ">> \o RaisedError(resp).message))
    ELSE Returned(Compose(ReadContent(resp.data).value, resp.data.citations))

\* what a call pending at pc has seen of its upstream response
FrameConsistent(f) ==
    /\ ValidCall(f)
    /\ f.pc = "fetch" => f.resp = NoResp
    /\ f.pc = "text" => f.resp = Resolved(f.resp.status) /\ NonSuccess(f.resp.status)
    /\ f.pc = "json" => f.resp = Resolved(f.resp.status) /\ ~NonSuccess(f.resp.status)

\* the answers are those of the code whatever else is pending
C10_State ==
    /\ lastDone.served =>
            lastDone.answer = OwnOutcome(lastDone.name, lastDone.args, lastDone.resp)
    /\ \A i \in Pending : FrameConsistent(calls[i])
    /\ lastList.served =>
            /\ Len(lastList.tools) = 1
            /\ lastList.tools[1].name = "perplexity_ask"
            /\ lastList.tools[1].inputSchema.required = <<"messages">>

\* a step of one call leaves the other calls and the server as they are
C10_Step ==
    /\ \A i \in Slots :
            calls'[i] # calls[i] =>
                /\ \A j \in Slots \ {i} : calls'[j] = calls[j]
                /\ phase' = phase
    /\ lastDone' # lastDone =>
            /\ phase' = phase
            /\ apiKey' = apiKey
            /\ exitCode' = exitCode
            /\ lastList' = lastList
            /\ \A i \in Slots : calls'[i] \in {calls[i], Idle}
    /\ (lastList.served /\ phase' = "running") => lastList' = lastList

\* C10: under any interleaving of pending tool calls and list-tools requests
\* each call's answer is the one its own name, arguments and upstream
\* response give; a step of one call (a failing one included) changes nothing
\* of another pending call or of the server, which keeps serving, and
\* list-tools keeps answering with the single tool.
C10_CallsAreIndependent == []C10_State /\ [][C10_Step]_vars

C10_Witness ==
    /\ phase = "running"
    /\ lastDone.served
    /\ lastDone.answer.kind = "error"
    /\ lastDone.resp.read = "json"
    /\ lastList.served
    /\ \E i \in Pending : calls[i].pc = "text" /\ calls[i].args # lastDone.args

=============================================================================
